---- MODULE Spec2Model ----
(***************************************************************************)
(* Model of SearchEngine.index_repository (repo_search/search/engine.py): *)
(* the incremental indexing pipeline download -> chunk -> embed, the       *)
(* persisted RepositoryInfo record and the chunk store it keeps coherent.  *)
(*                                                                         *)
(* One repository identifier is indexed by a sequence of runs.  A run is   *)
(* split at the points where the code persists the record, so every write  *)
(* to the state store is its own step: Begin (lines 65-149), Download      *)
(* (151-208), Chunk (210-266), Embed (268-283), Cleanup (285-292).         *)
(* Between runs the upstream repository may receive a new commit (Push).   *)
(*                                                                         *)
(* Spec is one engine indexing one repository, run after run.  SpecConc    *)
(* has two calls of index_repository in progress at once, for the same     *)
(* repository or for two different ones, sharing the database: the call    *)
(* that is not taking steps is held in `suspended`, and Switch hands the   *)
(* processor to it.                                                        *)
(*                                                                         *)
(* The collaborators (fetcher, chunker, vector database, RepositoryInfo)   *)
(* are not part of engine.py; they are modelled from their contracts.      *)
(***************************************************************************)
EXTENDS Naturals, FiniteSets, Sequences, TLC

\* ---------------------------------------------------------------- bounds
\* Number of distinct content versions a file can have (0 means: absent).
MaxHash == 2
\* Number of commits the upstream repository goes through.
MaxCommits == 2

\* The repository identifiers ('owner/name') index_repository is called with.
Repositories == {"o/a", "o/b"}

\* The relative file paths of the repository.
Files == {"x.py", "y.md"}

Hashes == 0..MaxHash
FileMap == [Files -> Hashes]
EmptyMap == [f \in Files |-> 0]

\* Keys of a dict modelled as a FileMap (0 = key absent).
Keys(m) == {f \in Files : m[f] # 0}

\* ---------------------------------------------------------- collaborators
\* fetcher.is_text_file: classification by path.
IsTextFile(f) == f \in {"x.py", "y.md"}

\* A content that is not text (it holds null bytes): is_text_file rejects a
\* file with this content whatever its path.  The upstream of Spec and
\* SpecConc never holds it; SpecContent draws it.
Binary == MaxHash + 1
AnyFileMap == [Files -> Hashes \cup {Binary}]

\* fetcher.is_text_file on file f of the downloaded tree, v its content.
IsText(f, v) == IsTextFile(f) /\ v # Binary

\* Number of chunks the text chunker produces for file f at content version v.
NumChunks(f, v) == IF IsText(f, v) THEN v ELSE 0

\* RepositoryInfo as get_repository_info builds it: only the identity and the
\* commit hash are set, every other field has the model's default.
RepositoryInfo(commit) ==
  [ commit_hash          |-> commit,
    download_successful  |-> FALSE,
    chunking_successful  |-> FALSE,
    embedding_successful |-> FALSE,
    file_hashes          |-> EmptyMap,
    num_files            |-> 0,
    num_chunks           |-> 0,
    last_indexed         |-> 0 ]     \* 0: None, 1: a time

\* db.get_repository returning None / a variable holding None.
NoRepo == [absent |-> TRUE]

\* The chunk store holds, per file and content version, the number of chunk
\* batches stored for it (chunk ids are not deterministic, so storing the
\* chunks of a file twice leaves two batches).
EmptyStore == [f \in Files |-> [v \in 1..MaxHash |-> 0]]

\* db.delete_file_chunks for every file of D.
DeleteFileChunks(s, D) ==
  [f \in Files |-> IF f \in D THEN [v \in 1..MaxHash |-> 0] ELSE s[f]]

\* db.store_chunks(chunks): chunks maps each chunked file to its version.
StoreChunks(s, c) ==
  [f \in Files |-> [v \in 1..MaxHash |->
      IF c[f] = v /\ NumChunks(f, v) > 0 THEN s[f][v] + 1 ELSE s[f][v]]]

RECURSIVE SumOver(_, _)
SumOver(S, m) ==
  IF S = {} THEN 0
  ELSE LET f == CHOOSE g \in S : TRUE
       IN NumChunks(f, m[f]) + SumOver(S \ {f}, m)

\* len(chunks) for the run's chunk list.
LenChunks(c) == SumOver(Keys(c), c)

\* Files that have at least one chunk in the store.
StoredFiles(s) == {f \in Files : \E v \in 1..MaxHash : s[f][v] > 0 /\ NumChunks(f, v) > 0}

\* Number of chunk batches the store holds for file f.
RECURSIVE BatchesUpTo(_, _, _)
BatchesUpTo(s, f, v) == IF v = 0 THEN 0 ELSE s[f][v] + BatchesUpTo(s, f, v - 1)
Batches(s, f) == BatchesUpTo(s, f, MaxHash)

\* Number of chunks the store holds: every batch of file f at version v has
\* NumChunks(f, v) chunks.
RECURSIVE ChunksUpTo(_, _, _)
ChunksUpTo(s, f, v) ==
  IF v = 0 THEN 0 ELSE s[f][v] * NumChunks(f, v) + ChunksUpTo(s, f, v - 1)
RECURSIVE ChunksOver(_, _)
ChunksOver(s, S) ==
  IF S = {} THEN 0
  ELSE LET f == CHOOSE g \in S : TRUE
       IN ChunksUpTo(s, f, MaxHash) + ChunksOver(s, S \ {f})
CountChunks(s) == ChunksOver(s, Files)

VARIABLES
  head,              \* upstream: number of the latest commit (its hash)
  tree,              \* upstream: content version of each file at head
  db_repo,           \* state store: the persisted RepositoryInfo, or NoRepo
  db_chunks,         \* chunk store
  pc,                \* position of the run: idle, download, chunk, embed, cleanup
  outcome,           \* how the last run ended: none, returned, raised
  ret,               \* the value the last run returned (NoRepo if it raised)
  force_refresh, force_redownload, force_rechunk, force_reembed,
  existing_repo, repo_info, repo_dir, temp_dir,
  need_download, need_chunking, need_embedding,
  files_to_chunk, files_to_delete, chunks,
  calls,             \* collaborator calls made by the run so far
  stage,             \* how each stage of the run ended
  chunks_before,     \* the chunk store as it was when the run began
  prev,              \* summary of the run before this one
  repository,        \* the identifier the run is for
  suspended,         \* the other call in progress: its local variables
  others             \* upstream, record and chunks of the other identifier

vars == << head, tree, db_repo, db_chunks, pc, outcome, ret,
           force_refresh, force_redownload, force_rechunk, force_reembed,
           existing_repo, repo_info, repo_dir, temp_dir,
           need_download, need_chunking, need_embedding,
           files_to_chunk, files_to_delete, chunks, calls, stage,
           chunks_before, prev, repository, suspended, others >>

upstream == << head, tree >>
flags    == << force_refresh, force_redownload, force_rechunk, force_reembed >>
plan     == << need_download, need_chunking, need_embedding >>
scope    == << files_to_chunk, files_to_delete >>
history  == << chunks_before, prev >>
outside  == << repository, suspended, others >>

\* calls counts the calls of fetch_repository_contents, store_chunks,
\* add_repository and rmtree; for the chunker and the chunk deletions it
\* counts the passes that made at least one call.
NoCalls == [ fetch |-> 0, chunker |-> 0, delete |-> 0, store_chunks |-> 0,
             add_repository |-> 0, rmtree |-> 0 ]
NoStage == [ download |-> "skipped", chunk |-> "skipped", embed |-> "skipped" ]
NoPrev  == [ outcome |-> "none", ret |-> NoRepo, stage |-> NoStage,
             chunks |-> EmptyMap, deleted |-> FALSE ]

\* The local variables of a call that has not started, for repository r.
IdleRun(r) ==
  [ repository |-> r, pc |-> "idle", outcome |-> "none", ret |-> NoRepo,
    force_refresh |-> FALSE, force_redownload |-> FALSE,
    force_rechunk |-> FALSE, force_reembed |-> FALSE,
    existing_repo |-> NoRepo, repo_info |-> NoRepo,
    repo_dir |-> FALSE, temp_dir |-> "none",
    need_download |-> TRUE, need_chunking |-> TRUE, need_embedding |-> TRUE,
    files_to_chunk |-> {}, files_to_delete |-> {}, chunks |-> EmptyMap,
    calls |-> NoCalls, stage |-> NoStage,
    chunks_before |-> EmptyStore, prev |-> NoPrev ]

\* A repository that was never indexed, upstream at its first commit.
NewWorld ==
  [ head |-> 1, tree |-> [f \in Files |-> 1],
    db_repo |-> NoRepo, db_chunks |-> EmptyStore ]

\* A new engine on an empty database; upstream holds both files at their
\* first version (any other tree is reached by Push before the first run).
Init ==
  /\ head = 1
  /\ tree = [f \in Files |-> 1]
  /\ db_repo = NoRepo
  /\ db_chunks = EmptyStore
  /\ pc = "idle"
  /\ outcome = "none"
  /\ ret = NoRepo
  /\ force_refresh = FALSE /\ force_redownload = FALSE
  /\ force_rechunk = FALSE /\ force_reembed = FALSE
  /\ existing_repo = NoRepo
  /\ repo_info = NoRepo
  /\ repo_dir = FALSE
  /\ temp_dir = "none"
  /\ need_download = TRUE /\ need_chunking = TRUE /\ need_embedding = TRUE
  /\ files_to_chunk = {} /\ files_to_delete = {}
  /\ chunks = EmptyMap
  /\ calls = NoCalls
  /\ stage = NoStage
  /\ chunks_before = EmptyStore
  /\ prev = NoPrev
  /\ repository = "o/a"
  /\ suspended = IdleRun("o/a")
  /\ others = NewWorld

\* ------------------------------------------------------------- upstream
\* A new commit lands upstream between two runs.  What the finished run left
\* in its local variables is dropped here: no later run can observe the same
\* commit hash as the runs before the push.
Push ==
  /\ pc = "idle"
  /\ head < MaxCommits
  /\ head' = head + 1
  /\ tree' \in FileMap
  /\ outcome' = "none"
  /\ ret' = NoRepo
  /\ force_refresh' = FALSE /\ force_redownload' = FALSE
  /\ force_rechunk' = FALSE /\ force_reembed' = FALSE
  /\ existing_repo' = NoRepo
  /\ repo_info' = NoRepo
  /\ repo_dir' = FALSE
  /\ temp_dir' = "none"
  /\ need_download' = TRUE /\ need_chunking' = TRUE /\ need_embedding' = TRUE
  /\ files_to_chunk' = {} /\ files_to_delete' = {}
  /\ chunks' = EmptyMap
  /\ calls' = NoCalls
  /\ stage' = NoStage
  /\ prev' = NoPrev
  /\ chunks_before' = db_chunks
  /\ UNCHANGED << outside, db_repo, db_chunks, pc >>

\* ------------------------------------------------------------ the planner
\* Line 92-94: the branch that may skip stages is taken.
SameCommit(existing, current, fr) ==
  /\ existing # NoRepo
  /\ existing.commit_hash # 0
  /\ existing.commit_hash = current.commit_hash
  /\ ~fr

\* Lines 84, 96-103.
NeedDownload(existing, current, fr, fd) ==
  IF SameCommit(existing, current, fr)
  THEN IF fd THEN TRUE
       ELSE IF existing.download_successful THEN FALSE ELSE TRUE
  ELSE TRUE

\* Lines 106-114 outside the "if not need_download" of line 106: chunking
\* would be skipped on the old flag although the download is repeated.
NeedChunking_NoCascade(existing, current, fr, fd, fc) ==
  IF SameCommit(existing, current, fr)
  THEN IF fc THEN TRUE
       ELSE IF existing.chunking_successful THEN FALSE ELSE TRUE
  ELSE TRUE

\* Lines 85, 106-114.
NeedChunking(existing, current, fr, fd, fc) ==
  IF SameCommit(existing, current, fr) /\ ~NeedDownload(existing, current, fr, fd)
  THEN IF fc THEN TRUE
       ELSE IF existing.chunking_successful THEN FALSE ELSE TRUE
  ELSE TRUE

\* Lines 86, 116-124.
NeedEmbedding(existing, current, fr, fd, fc, fe) ==
  IF /\ SameCommit(existing, current, fr)
     /\ ~NeedDownload(existing, current, fr, fd)
     /\ ~NeedChunking(existing, current, fr, fd, fc)
  THEN IF fe THEN TRUE
       ELSE IF existing.embedding_successful THEN FALSE ELSE TRUE
  ELSE TRUE

\* Lines 133-147 with last_indexed among the fields copied at lines 145-147:
\* the time of the old indexing would be carried into the new record.
StartRepoInfo_KeepsTime(existing, current, fr) ==
  IF existing # NoRepo /\ ~SameCommit(existing, current, fr)
  THEN [ current EXCEPT
           !.file_hashes = IF Keys(existing.file_hashes) # {}
                           THEN existing.file_hashes ELSE @,
           !.num_chunks  = existing.num_chunks,
           !.num_files   = existing.num_files,
           !.last_indexed = existing.last_indexed ]
  ELSE current

\* Lines 81, 133-147: repo_info starts as the freshly resolved record; only
\* on a changed commit (or force_refresh) are the old file hashes and the
\* counters copied into it.
StartRepoInfo(existing, current, fr) ==
  IF existing # NoRepo /\ ~SameCommit(existing, current, fr)
  THEN [ current EXCEPT
           !.file_hashes = IF Keys(existing.file_hashes) # {}
                           THEN existing.file_hashes ELSE @,
           !.num_chunks  = existing.num_chunks,
           !.num_files   = existing.num_files ]
  ELSE current

\* The summary of the run that just ended, kept while the next one runs.
Summary ==
  [ outcome |-> outcome,
    ret     |-> ret,
    stage   |-> stage,
    chunks  |-> chunks,
    deleted |-> calls.delete > 0 ]

\* Lines 73-75 with the handler of lines 204-208 in their place: a failed
\* resolution would persist a record with download_successful=False.
BeginResolveFails_Persists ==
  /\ pc = "idle"
  /\ \E fr \in BOOLEAN, fd \in BOOLEAN, fc \in BOOLEAN, fe \in BOOLEAN :
       /\ force_refresh' = fr
       /\ force_redownload' = (fr \/ fd)
       /\ force_rechunk' = (fr \/ fc)
       /\ force_reembed' = (fr \/ fe)
  /\ prev' = Summary
  /\ chunks_before' = db_chunks
  /\ outcome' = "raised"
  /\ ret' = NoRepo
  /\ existing_repo' = NoRepo
  /\ repo_info' = NoRepo
  /\ repo_dir' = FALSE
  /\ temp_dir' = "none"
  /\ need_download' = TRUE /\ need_chunking' = TRUE /\ need_embedding' = TRUE
  /\ files_to_chunk' = {} /\ files_to_delete' = {}
  /\ chunks' = EmptyMap
  /\ calls' = NoCalls
  /\ stage' = NoStage
  /\ db_repo' = RepositoryInfo(0)
  /\ UNCHANGED << outside, upstream, db_chunks, pc >>

\* Lines 65-75: get_repository_info raises; index_repository re-raises before
\* it has read or written anything.
BeginResolveFails ==
  /\ pc = "idle"
  /\ \E fr \in BOOLEAN, fd \in BOOLEAN, fc \in BOOLEAN, fe \in BOOLEAN :
       /\ force_refresh' = fr
       /\ force_redownload' = (fr \/ fd)
       /\ force_rechunk' = (fr \/ fc)
       /\ force_reembed' = (fr \/ fe)
  /\ prev' = Summary
  /\ chunks_before' = db_chunks
  /\ outcome' = "raised"
  /\ ret' = NoRepo
  /\ existing_repo' = NoRepo
  /\ repo_info' = NoRepo
  /\ repo_dir' = FALSE
  /\ temp_dir' = "none"
  /\ need_download' = TRUE /\ need_chunking' = TRUE /\ need_embedding' = TRUE
  /\ files_to_chunk' = {} /\ files_to_delete' = {}
  /\ chunks' = EmptyMap
  /\ calls' = NoCalls
  /\ stage' = NoStage
  /\ UNCHANGED << outside, upstream, db_repo, db_chunks, pc >>

\* Lines 65-149 without the early return of lines 126-132: a run with nothing
\* to do would fall through the three stage guards and return repo_info.
Begin_NoEarlyReturn ==
  /\ pc = "idle"
  /\ \E fr \in BOOLEAN, fd \in BOOLEAN, fc \in BOOLEAN, fe \in BOOLEAN :
       LET redl     == fr \/ fd
           rechunk  == fr \/ fc
           reembed  == fr \/ fe
           current  == RepositoryInfo(head)
           existing == db_repo
           nd == NeedDownload(existing, current, fr, redl)
           nc == NeedChunking(existing, current, fr, redl, rechunk)
           ne == NeedEmbedding(existing, current, fr, redl, rechunk, reembed)
           noop == SameCommit(existing, current, fr) /\ ~nd /\ ~nc /\ ~ne
       IN /\ force_refresh' = fr
          /\ force_redownload' = redl
          /\ force_rechunk' = rechunk
          /\ force_reembed' = reembed
          /\ existing_repo' = existing
          /\ repo_info' = StartRepoInfo(existing, current, fr)
          /\ need_download' = nd
          /\ need_chunking' = nc
          /\ need_embedding' = ne
          /\ pc' = "download"
          /\ outcome' = "none"
          /\ ret' = NoRepo
  /\ prev' = Summary
  /\ chunks_before' = db_chunks
  /\ repo_dir' = FALSE
  /\ temp_dir' = "none"
  /\ files_to_chunk' = {} /\ files_to_delete' = {}
  /\ chunks' = EmptyMap
  /\ calls' = NoCalls
  /\ stage' = NoStage
  /\ UNCHANGED << outside, upstream, db_repo, db_chunks >>

\* Lines 65-149: resolve the identity, read the persisted record, plan.
Begin ==
  /\ pc = "idle"
  /\ \E fr \in BOOLEAN, fd \in BOOLEAN, fc \in BOOLEAN, fe \in BOOLEAN :
       LET redl     == fr \/ fd
           rechunk  == fr \/ fc
           reembed  == fr \/ fe
           current  == RepositoryInfo(head)
           existing == db_repo
           nd == NeedDownload(existing, current, fr, redl)
           nc == NeedChunking(existing, current, fr, redl, rechunk)
           ne == NeedEmbedding(existing, current, fr, redl, rechunk, reembed)
           noop == SameCommit(existing, current, fr) /\ ~nd /\ ~nc /\ ~ne
       IN /\ force_refresh' = fr
          /\ force_redownload' = redl
          /\ force_rechunk' = rechunk
          /\ force_reembed' = reembed
          /\ existing_repo' = existing
          /\ repo_info' = StartRepoInfo(existing, current, fr)
          /\ need_download' = nd
          /\ need_chunking' = nc
          /\ need_embedding' = ne
          /\ IF noop
             THEN /\ pc' = "idle"          \* line 132: return existing_repo
                  /\ outcome' = "returned"
                  /\ ret' = existing
             ELSE /\ pc' = "download"
                  /\ outcome' = "none"
                  /\ ret' = NoRepo
  /\ prev' = Summary
  /\ chunks_before' = db_chunks
  /\ repo_dir' = FALSE
  /\ temp_dir' = "none"
  /\ files_to_chunk' = {} /\ files_to_delete' = {}
  /\ chunks' = EmptyMap
  /\ calls' = NoCalls
  /\ stage' = NoStage
  /\ UNCHANGED << outside, upstream, db_repo, db_chunks >>

\* ---------------------------------------------------------------- download
\* fetcher.get_text_files(repo_dir): the text files of the downloaded tree.
TextFiles(t) == {f \in Keys(t) : IsText(f, t[f])}

\* Lines 168-173 without "file_path not in old_file_hashes" at line 170 (a
\* lookup with a default that equals every hash): new files are not found.
ChangedFiles_ModifiedOnly(old, new) ==
  {f \in Keys(new) : old[f] # 0 /\ old[f] # new[f]}

\* Lines 168-173: files that are new or modified.
ChangedFiles(old, new) ==
  {f \in Keys(new) : old[f] = 0 \/ old[f] # new[f]}

\* Lines 175-179: files that were deleted.
DeletedFiles(old, new) ==
  {f \in Keys(old) : new[f] = 0}

\* Line 163: there are previous file hashes to compare with.
HasOldHashes(existing) ==
  existing # NoRepo /\ Keys(existing.file_hashes) # {}

\* Line 152 not taken.
DownloadSkip ==
  /\ pc = "download"
  /\ ~need_download
  /\ pc' = "chunk"
  /\ UNCHANGED << outside, upstream, db_repo, db_chunks, outcome, ret, flags,
                  existing_repo, repo_info, repo_dir, temp_dir, plan, scope,
                  chunks, calls, stage, history >>

\* Lines 152-201 without the add_repository of line 203: the download result
\* stays in memory until a later stage writes the record.
DownloadOk_NoPersist ==
  /\ pc = "download"
  /\ need_download
  /\ temp_dir' = "exists"
  /\ repo_dir' = TRUE
  /\ IF HasOldHashes(existing_repo)
     THEN /\ files_to_chunk' = ChangedFiles(existing_repo.file_hashes, tree)
          /\ files_to_delete' = DeletedFiles(existing_repo.file_hashes, tree)
          /\ need_chunking' =
               IF files_to_chunk' # {} /\ ~force_rechunk THEN TRUE ELSE need_chunking
     ELSE /\ files_to_chunk' = TextFiles(tree)
          /\ files_to_delete' = {}
          /\ need_chunking' = TRUE
  /\ repo_info' = [ repo_info EXCEPT
                      !.num_files = Cardinality(Keys(tree)),
                      !.download_successful = TRUE,
                      !.file_hashes = tree ]
  /\ calls' = [ calls EXCEPT !.fetch = @ + 1 ]
  /\ stage' = [ stage EXCEPT !.download = "ok" ]
  /\ pc' = "chunk"
  /\ UNCHANGED << outside, upstream, db_repo, db_chunks, outcome, ret, flags,
                  existing_repo, need_download, need_embedding, chunks,
                  history >>

\* Lines 152-203 without the loop of lines 189-193: with no old file hashes
\* nothing would be scheduled for chunking.
DownloadOk_NoFirstScope ==
  /\ pc = "download"
  /\ need_download
  /\ temp_dir' = "exists"
  /\ repo_dir' = TRUE
  /\ IF HasOldHashes(existing_repo)
     THEN /\ files_to_chunk' = ChangedFiles(existing_repo.file_hashes, tree)
          /\ files_to_delete' = DeletedFiles(existing_repo.file_hashes, tree)
          /\ need_chunking' =
               IF files_to_chunk' # {} /\ ~force_rechunk THEN TRUE ELSE need_chunking
     ELSE /\ files_to_chunk' = {}
          /\ files_to_delete' = {}
          /\ need_chunking' = TRUE
  /\ repo_info' = [ repo_info EXCEPT
                      !.num_files = Cardinality(Keys(tree)),
                      !.download_successful = TRUE,
                      !.file_hashes = tree ]
  /\ db_repo' = repo_info'
  /\ calls' = [ calls EXCEPT !.fetch = @ + 1, !.add_repository = @ + 1 ]
  /\ stage' = [ stage EXCEPT !.download = "ok" ]
  /\ pc' = "chunk"
  /\ UNCHANGED << outside, upstream, db_chunks, outcome, ret, flags,
                  existing_repo, need_download, need_embedding, chunks,
                  history >>

\* Lines 152-203 with line 200 as file_hashes.update(...): the keys copied
\* from the old record at line 143 would survive the download.
DownloadOk_MergesHashes ==
  /\ pc = "download"
  /\ need_download
  /\ temp_dir' = "exists"
  /\ repo_dir' = TRUE
  /\ IF HasOldHashes(existing_repo)
     THEN /\ files_to_chunk' = ChangedFiles(existing_repo.file_hashes, tree)
          /\ files_to_delete' = DeletedFiles(existing_repo.file_hashes, tree)
          /\ need_chunking' =
               IF files_to_chunk' # {} /\ ~force_rechunk THEN TRUE ELSE need_chunking
     ELSE /\ files_to_chunk' = TextFiles(tree)
          /\ files_to_delete' = {}
          /\ need_chunking' = TRUE
  /\ repo_info' = [ repo_info EXCEPT
                      !.num_files = Cardinality(Keys(tree)),
                      !.download_successful = TRUE,
                      !.file_hashes = [f \in Files |->
                         IF tree[f] # 0 THEN tree[f] ELSE @[f]] ]
  /\ db_repo' = repo_info'
  /\ calls' = [ calls EXCEPT !.fetch = @ + 1, !.add_repository = @ + 1 ]
  /\ stage' = [ stage EXCEPT !.download = "ok" ]
  /\ pc' = "chunk"
  /\ UNCHANGED << outside, upstream, db_chunks, outcome, ret, flags,
                  existing_repo, need_download, need_embedding, chunks,
                  history >>

\* Lines 152-203: the fetch succeeds; the diff against the old file hashes
\* (or the whole text file set) becomes the chunking scope, and the record
\* is persisted with download_successful and the new file hashes.
DownloadOk ==
  /\ pc = "download"
  /\ need_download
  /\ temp_dir' = "exists"
  /\ repo_dir' = TRUE
  /\ IF HasOldHashes(existing_repo)
     THEN /\ files_to_chunk' = ChangedFiles(existing_repo.file_hashes, tree)
          /\ files_to_delete' = DeletedFiles(existing_repo.file_hashes, tree)
          /\ need_chunking' =
               IF files_to_chunk' # {} /\ ~force_rechunk THEN TRUE ELSE need_chunking
     ELSE /\ files_to_chunk' = TextFiles(tree)
          /\ files_to_delete' = {}
          /\ need_chunking' = TRUE
  /\ repo_info' = [ repo_info EXCEPT
                      !.num_files = Cardinality(Keys(tree)),
                      !.download_successful = TRUE,
                      !.file_hashes = tree ]
  /\ db_repo' = repo_info'
  /\ calls' = [ calls EXCEPT !.fetch = @ + 1, !.add_repository = @ + 1 ]
  /\ stage' = [ stage EXCEPT !.download = "ok" ]
  /\ pc' = "chunk"
  /\ UNCHANGED << outside, upstream, db_chunks, outcome, ret, flags, existing_repo,
                  need_download, need_embedding, chunks, history >>

\* Lines 204-208 without the add_repository of line 207: the failed download
\* is not recorded.
DownloadFails_NoPersist ==
  /\ pc = "download"
  /\ need_download
  /\ temp_dir' = "exists"
  /\ repo_info' = [ repo_info EXCEPT !.download_successful = FALSE ]
  /\ calls' = [ calls EXCEPT !.fetch = @ + 1 ]
  /\ stage' = [ stage EXCEPT !.download = "failed" ]
  /\ pc' = "idle"
  /\ outcome' = "raised"
  /\ UNCHANGED << outside, upstream, db_repo, db_chunks, ret, flags, existing_repo,
                  repo_dir, plan, scope, chunks, history >>

\* Lines 204-207 without the raise of line 208: the run would go on to the
\* chunk stage after a failed download.
DownloadFails_Continues ==
  /\ pc = "download"
  /\ need_download
  /\ temp_dir' = "exists"
  /\ repo_info' = [ repo_info EXCEPT !.download_successful = FALSE ]
  /\ db_repo' = repo_info'
  /\ calls' = [ calls EXCEPT !.fetch = @ + 1, !.add_repository = @ + 1 ]
  /\ stage' = [ stage EXCEPT !.download = "failed" ]
  /\ pc' = "chunk"
  /\ UNCHANGED << outside, upstream, db_chunks, outcome, ret, flags,
                  existing_repo, repo_dir, plan, scope, chunks, history >>

\* Lines 152-160, 204-208: the fetch raises; download_successful=False is
\* persisted and the error propagates (the cleanup at 285-290 is not reached).
DownloadFails ==
  /\ pc = "download"
  /\ need_download
  /\ temp_dir' = "exists"
  /\ repo_info' = [ repo_info EXCEPT !.download_successful = FALSE ]
  /\ db_repo' = repo_info'
  /\ calls' = [ calls EXCEPT !.fetch = @ + 1, !.add_repository = @ + 1 ]
  /\ stage' = [ stage EXCEPT !.download = "failed" ]
  /\ pc' = "idle"
  /\ outcome' = "raised"
  /\ UNCHANGED << outside, upstream, db_chunks, ret, flags, existing_repo, repo_dir,
                  plan, scope, chunks, history >>

\* ------------------------------------------------------------------- chunk
\* Line 212 without its "and repo_dir": the chunk stage would run on a tree
\* that this run never downloaded.
ChunkStageRuns_NoDirCheck == need_chunking

\* Line 212.
ChunkStageRuns == need_chunking /\ repo_dir

\* Line 214 without "and not force_rechunk": a forced re-chunk would still be
\* limited to the changed files.
ScopedChunking_IgnoresForce == files_to_chunk # {}

\* Line 214.
ScopedChunking == files_to_chunk # {} /\ ~force_rechunk

\* Line 227: the file exists in the downloaded tree.
Exists(f) == tree[f] # 0

\* Lines 216-237 with the delete_file_chunks of line 229 inside the
\* is_text_file check of line 232: a changed file that is not a text file
\* would keep its old chunks.
ScopedOutcomes_DeleteTextOnly(ftc, ftd) ==
  LET hit == {f \in ftc : Exists(f) /\ IsText(f, tree[f])}
      text(P) == {f \in P : IsText(f, tree[f])}
  IN    { [ deleted |-> ftd \cup hit, deletes |-> ftd \cup hit # {},
            chunked |-> text(hit), invoked |-> text(hit) # {},
            error |-> "none" ] }
   \cup { [ deleted |-> D, deletes |-> TRUE, chunked |-> {}, invoked |-> FALSE,
            error |-> "other" ] : D \in (SUBSET ftd) \ {ftd} }
   \cup { [ deleted |-> ftd \cup P, deletes |-> TRUE,
            chunked |-> text(P), invoked |-> text(P) # {},
            error |-> "other" ] : P \in (SUBSET hit) \ {hit} }
   \cup UNION { { [ deleted |-> ftd \cup P \cup {g}, deletes |-> TRUE,
                    chunked |-> text(P), invoked |-> TRUE,
                    error |-> e ] :
                  g \in text(hit \ P), e \in {"other", "decode"} } :
                P \in (SUBSET hit) \ {hit} }

\* What one pass through lines 216-237 can do.  A python set is iterated in
\* no fixed order and any collaborator call may raise, so an outcome names
\* the files whose chunks were deleted and the files that were chunked before
\* the pass ended, and how it ended: "none", "decode" (UnicodeDecodeError) or
\* "other".
ScopedOutcomes(ftc, ftd) ==
  LET hit == {f \in ftc : Exists(f)}
      text(P) == {f \in P : IsText(f, tree[f])}
  IN    { [ deleted |-> ftd \cup hit, deletes |-> ftd \cup hit # {},
            chunked |-> text(hit), invoked |-> text(hit) # {},
            error |-> "none" ] }
   \cup { [ deleted |-> D, deletes |-> TRUE, chunked |-> {}, invoked |-> FALSE,
            error |-> "other" ] : D \in (SUBSET ftd) \ {ftd} }
   \cup { [ deleted |-> ftd \cup P, deletes |-> TRUE,
            chunked |-> text(P), invoked |-> text(P) # {},
            error |-> "other" ] : P \in (SUBSET hit) \ {hit} }
   \cup UNION { { [ deleted |-> ftd \cup P \cup {g}, deletes |-> TRUE,
                    chunked |-> text(P), invoked |-> TRUE,
                    error |-> e ] :
                  g \in text(hit \ P), e \in {"other", "decode"} } :
                P \in (SUBSET hit) \ {hit} }

\* What one pass through lines 250-258 can do: delete_repository_chunks (only
\* with a previous record), then chunk_repository over the downloaded tree.
FullOutcomes(existing) ==
  LET had  == existing # NoRepo
      gone == IF had THEN Files ELSE {}
      all  == TextFiles(tree)
  IN    { [ deleted |-> gone, deletes |-> had, chunked |-> all,
            invoked |-> TRUE, error |-> "none" ] }
   \cup { [ deleted |-> {}, deletes |-> TRUE, chunked |-> {},
            invoked |-> FALSE, error |-> "other" ] :
            x \in IF had THEN {1} ELSE {} }
   \cup { [ deleted |-> gone, deletes |-> had, chunked |-> P,
            invoked |-> TRUE, error |-> e ] :
            P \in (SUBSET all) \ {all}, e \in {"other", "decode"} }

\* Lines 238-246 / 258-266 without the re-raise of lines 245-246 / 265-266:
\* every chunking error would be swallowed like a UnicodeDecodeError.
ApplyChunking_NoRaise(o) ==
  /\ db_chunks' = DeleteFileChunks(db_chunks, o.deleted)
  /\ chunks' = [f \in Files |-> IF f \in o.chunked THEN tree[f] ELSE 0]
  /\ repo_info' = [ repo_info EXCEPT !.chunking_successful = (o.error = "none") ]
  /\ db_repo' = repo_info'
  /\ calls' = [ calls EXCEPT
                  !.add_repository = @ + 1,
                  !.delete = @ + (IF o.deletes THEN 1 ELSE 0),
                  !.chunker = @ + (IF o.invoked THEN 1 ELSE 0) ]
  /\ stage' = [ stage EXCEPT !.chunk = IF o.error = "none" THEN "ok"
                                       ELSE IF o.error = "decode" THEN "decode"
                                       ELSE "failed" ]
  /\ pc' = "embed"
  /\ UNCHANGED outcome

\* Lines 238-246 / 258-266 applied to a pass without the delete calls of
\* lines 221, 229 and 253: the old chunks would stay in the store.
ApplyChunking_NoDelete(o) ==
  /\ db_chunks' = db_chunks
  /\ chunks' = [f \in Files |-> IF f \in o.chunked THEN tree[f] ELSE 0]
  /\ repo_info' = [ repo_info EXCEPT !.chunking_successful = (o.error = "none") ]
  /\ db_repo' = repo_info'
  /\ calls' = [ calls EXCEPT
                  !.add_repository = @ + 1,
                  !.chunker = @ + (IF o.invoked THEN 1 ELSE 0) ]
  /\ stage' = [ stage EXCEPT !.chunk = IF o.error = "none" THEN "ok"
                                       ELSE IF o.error = "decode" THEN "decode"
                                       ELSE "failed" ]
  /\ IF o.error = "other"
     THEN /\ pc' = "idle"
          /\ outcome' = "raised"
     ELSE /\ pc' = "embed"
          /\ UNCHANGED outcome

\* Lines 238-246 / 258-266 applied to an outcome of the pass.
ApplyChunking(o) ==
  /\ db_chunks' = DeleteFileChunks(db_chunks, o.deleted)
  /\ chunks' = [f \in Files |-> IF f \in o.chunked THEN tree[f] ELSE 0]
  /\ repo_info' = [ repo_info EXCEPT !.chunking_successful = (o.error = "none") ]
  /\ db_repo' = repo_info'
  /\ calls' = [ calls EXCEPT
                  !.add_repository = @ + 1,
                  !.delete = @ + (IF o.deletes THEN 1 ELSE 0),
                  !.chunker = @ + (IF o.invoked THEN 1 ELSE 0) ]
  /\ stage' = [ stage EXCEPT !.chunk = IF o.error = "none" THEN "ok"
                                       ELSE IF o.error = "decode" THEN "decode"
                                       ELSE "failed" ]
  /\ IF o.error = "other"
     THEN /\ pc' = "idle"                 \* lines 245-246 / 265-266: raise
          /\ outcome' = "raised"
     ELSE /\ pc' = "embed"
          /\ UNCHANGED outcome

\* Line 212 as a wait: with chunking needed and no downloaded tree the run
\* would not go on until there is one.
ChunkSkip_WaitsForDir ==
  /\ pc = "chunk"
  /\ ~need_chunking
  /\ pc' = "embed"
  /\ UNCHANGED << outside, upstream, db_repo, db_chunks, outcome, ret, flags,
                  existing_repo, repo_info, repo_dir, temp_dir, plan, scope,
                  chunks, calls, stage, history >>

\* Line 212 not taken.
ChunkSkip ==
  /\ pc = "chunk"
  /\ ~ChunkStageRuns
  /\ pc' = "embed"
  /\ UNCHANGED << outside, upstream, db_repo, db_chunks, outcome, ret, flags,
                  existing_repo, repo_info, repo_dir, temp_dir, plan, scope,
                  chunks, calls, stage, history >>

\* Lines 214-246 with delete_file_chunks called without the repository
\* (lines 221, 229): the chunks of those file paths would be deleted for
\* every repository.
ChunkScoped_AnyRepository ==
  /\ pc = "chunk"
  /\ ChunkStageRuns
  /\ ScopedChunking
  /\ \E o \in ScopedOutcomes(files_to_chunk, files_to_delete) :
       /\ ApplyChunking(o)
       /\ others' = [ others EXCEPT
                        !.db_chunks = DeleteFileChunks(@, o.deleted) ]
  /\ UNCHANGED << repository, suspended, upstream, ret, flags, existing_repo,
                  repo_dir, temp_dir, plan, scope, history >>

\* Lines 214-246: chunk only the changed files.
ChunkScoped ==
  /\ pc = "chunk"
  /\ ChunkStageRuns
  /\ ScopedChunking
  /\ \E o \in ScopedOutcomes(files_to_chunk, files_to_delete) : ApplyChunking(o)
  /\ UNCHANGED << outside, upstream, ret, flags, existing_repo, repo_dir, temp_dir,
                  plan, scope, history >>

\* Lines 247-266: delete all chunks of the repository and chunk all files.
ChunkFull ==
  /\ pc = "chunk"
  /\ ChunkStageRuns
  /\ ~ScopedChunking
  /\ \E o \in FullOutcomes(existing_repo) : ApplyChunking(o)
  /\ UNCHANGED << outside, upstream, ret, flags, existing_repo, repo_dir, temp_dir,
                  plan, scope, history >>

\* ------------------------------------------------------------------- embed
\* Line 269.
EmbedStageRuns == need_embedding /\ (LenChunks(chunks) > 0 \/ ~need_chunking)

\* Line 269 not taken.
EmbedSkip ==
  /\ pc = "embed"
  /\ ~EmbedStageRuns
  /\ pc' = "cleanup"
  /\ UNCHANGED << outside, upstream, db_repo, db_chunks, outcome, ret, flags,
                  existing_repo, repo_info, repo_dir, temp_dir, plan, scope,
                  chunks, calls, stage, history >>

\* Lines 270-278: store the chunks (if any), record the count, the flag and
\* the time, persist.
EmbedOk ==
  /\ pc = "embed"
  /\ EmbedStageRuns
  /\ IF LenChunks(chunks) > 0
     THEN /\ db_chunks' = StoreChunks(db_chunks, chunks)
          /\ repo_info' = [ repo_info EXCEPT
                              !.num_chunks = LenChunks(chunks),
                              !.embedding_successful = TRUE,
                              !.last_indexed = 1 ]
          /\ calls' = [ calls EXCEPT !.store_chunks = @ + 1, !.add_repository = @ + 1 ]
     ELSE /\ db_chunks' = db_chunks
          /\ repo_info' = [ repo_info EXCEPT
                              !.embedding_successful = TRUE,
                              !.last_indexed = 1 ]
          /\ calls' = [ calls EXCEPT !.add_repository = @ + 1 ]
  /\ db_repo' = repo_info'
  /\ stage' = [ stage EXCEPT !.embed = "ok" ]
  /\ pc' = "cleanup"
  /\ UNCHANGED << outside, upstream, outcome, ret, flags, existing_repo, repo_dir,
                  temp_dir, plan, scope, chunks, history >>

\* Lines 272-283 with line 277 moved above the store_chunks call: the time
\* of indexing would be recorded although the store failed.
EmbedFails_TimeBeforeStore ==
  /\ pc = "embed"
  /\ EmbedStageRuns
  /\ LenChunks(chunks) > 0
  /\ repo_info' = [ repo_info EXCEPT !.embedding_successful = FALSE,
                                     !.last_indexed = 1 ]
  /\ db_repo' = repo_info'
  /\ calls' = [ calls EXCEPT !.store_chunks = @ + 1, !.add_repository = @ + 1 ]
  /\ stage' = [ stage EXCEPT !.embed = "failed" ]
  /\ pc' = "idle"
  /\ outcome' = "raised"
  /\ UNCHANGED << outside, upstream, db_chunks, ret, flags, existing_repo, repo_dir,
                  temp_dir, plan, scope, chunks, history >>

\* Lines 272-273, 279-283: store_chunks raises; embedding_successful=False is
\* persisted and the error propagates.
EmbedFails ==
  /\ pc = "embed"
  /\ EmbedStageRuns
  /\ LenChunks(chunks) > 0
  /\ repo_info' = [ repo_info EXCEPT !.embedding_successful = FALSE ]
  /\ db_repo' = repo_info'
  /\ calls' = [ calls EXCEPT !.store_chunks = @ + 1, !.add_repository = @ + 1 ]
  /\ stage' = [ stage EXCEPT !.embed = "failed" ]
  /\ pc' = "idle"
  /\ outcome' = "raised"
  /\ UNCHANGED << outside, upstream, db_chunks, ret, flags, existing_repo, repo_dir,
                  temp_dir, plan, scope, chunks, history >>

\* ----------------------------------------------------------------- cleanup
\* Lines 285-292 without the rmtree call: the run returns and leaves its
\* temporary directory behind.
Cleanup_NoRmtree ==
  /\ pc = "cleanup"
  /\ pc' = "idle"
  /\ outcome' = "returned"
  /\ ret' = repo_info
  /\ UNCHANGED << outside, upstream, db_repo, db_chunks, flags, existing_repo,
                  repo_info, repo_dir, temp_dir, plan, scope, chunks, calls,
                  stage, history >>

\* Lines 285-292: remove the temporary directory if one was made (a failure
\* of rmtree is only printed) and return repo_info.
Cleanup ==
  /\ pc = "cleanup"
  /\ IF temp_dir = "exists"
     THEN /\ temp_dir' \in {"removed", "leftover"}
          /\ calls' = [ calls EXCEPT !.rmtree = @ + 1 ]
     ELSE UNCHANGED << temp_dir, calls >>
  /\ pc' = "idle"
  /\ outcome' = "returned"
  /\ ret' = repo_info
  /\ UNCHANGED << outside, upstream, db_repo, db_chunks, flags, existing_repo,
                  repo_info, repo_dir, plan, scope, chunks, stage, history >>

Next ==
  \/ Push
  \/ BeginResolveFails
  \/ Begin
  \/ DownloadSkip
  \/ DownloadOk
  \/ DownloadFails
  \/ ChunkSkip
  \/ ChunkScoped
  \/ ChunkFull
  \/ EmbedSkip
  \/ EmbedOk
  \/ EmbedFails
  \/ Cleanup

Spec == Init /\ [][Next]_vars

\* ------------------------------------------------------- two calls at once
\* The local variables of the call that is taking steps.
RunContext ==
  [ repository |-> repository, pc |-> pc, outcome |-> outcome, ret |-> ret,
    force_refresh |-> force_refresh, force_redownload |-> force_redownload,
    force_rechunk |-> force_rechunk, force_reembed |-> force_reembed,
    existing_repo |-> existing_repo, repo_info |-> repo_info,
    repo_dir |-> repo_dir, temp_dir |-> temp_dir,
    need_download |-> need_download, need_chunking |-> need_chunking,
    need_embedding |-> need_embedding,
    files_to_chunk |-> files_to_chunk, files_to_delete |-> files_to_delete,
    chunks |-> chunks, calls |-> calls, stage |-> stage,
    chunks_before |-> chunks_before, prev |-> prev ]

\* index_repository takes no lock and the database is shared: between two
\* database calls of one call the other call may take its steps.  The call
\* that was taking steps is suspended and the suspended one resumes; the
\* database entries in view become those of the resuming call's repository.
Switch ==
  /\ suspended' = RunContext
  /\ repository' = suspended.repository
  /\ pc' = suspended.pc
  /\ outcome' = suspended.outcome
  /\ ret' = suspended.ret
  /\ force_refresh' = suspended.force_refresh
  /\ force_redownload' = suspended.force_redownload
  /\ force_rechunk' = suspended.force_rechunk
  /\ force_reembed' = suspended.force_reembed
  /\ existing_repo' = suspended.existing_repo
  /\ repo_info' = suspended.repo_info
  /\ repo_dir' = suspended.repo_dir
  /\ temp_dir' = suspended.temp_dir
  /\ need_download' = suspended.need_download
  /\ need_chunking' = suspended.need_chunking
  /\ need_embedding' = suspended.need_embedding
  /\ files_to_chunk' = suspended.files_to_chunk
  /\ files_to_delete' = suspended.files_to_delete
  /\ chunks' = suspended.chunks
  /\ calls' = suspended.calls
  /\ stage' = suspended.stage
  /\ chunks_before' = suspended.chunks_before
  /\ prev' = suspended.prev
  /\ IF suspended.repository = repository
     THEN UNCHANGED << head, tree, db_repo, db_chunks, others >>
     ELSE /\ others' = [ head |-> head, tree |-> tree,
                         db_repo |-> db_repo, db_chunks |-> db_chunks ]
          /\ head' = others.head
          /\ tree' = others.tree
          /\ db_repo' = others.db_repo
          /\ db_chunks' = others.db_chunks

\* Each of the two calls is made once.
BeginOnce == outcome = "none" /\ Begin

\* The record a run without failure and without force flags leaves for a
\* repository whose files are all at their first version.
IndexedRepo ==
  [ RepositoryInfo(1) EXCEPT
      !.download_successful = TRUE,
      !.chunking_successful = TRUE,
      !.embedding_successful = TRUE,
      !.file_hashes = [f \in Files |-> 1],
      !.num_files = Cardinality(Files),
      !.num_chunks = LenChunks([f \in Files |-> 1]),
      !.last_indexed = 1 ]

\* The repository was indexed at its first commit.
IndexedWorld ==
  [ NewWorld EXCEPT
      !.db_repo = IndexedRepo,
      !.db_chunks = StoreChunks(EmptyStore, [f \in Files |-> 1]) ]

\* The repository was indexed at its first commit and upstream has moved on:
\* x.py changed, y.md is gone.
StaleWorld ==
  [ IndexedWorld EXCEPT
      !.head = 2,
      !.tree = [f \in Files |-> IF f = "x.py" THEN 2 ELSE 0] ]

StartWorlds == {NewWorld, IndexedWorld, StaleWorld}

\* Two calls are about to be made, for the same repository or for two
\* different ones; each repository is new, indexed or indexed and stale.
InitConc ==
  /\ \E w \in StartWorlds :
       /\ head = w.head /\ tree = w.tree
       /\ db_repo = w.db_repo /\ db_chunks = w.db_chunks
       /\ chunks_before = w.db_chunks
  /\ pc = "idle"
  /\ outcome = "none"
  /\ ret = NoRepo
  /\ force_refresh = FALSE /\ force_redownload = FALSE
  /\ force_rechunk = FALSE /\ force_reembed = FALSE
  /\ existing_repo = NoRepo
  /\ repo_info = NoRepo
  /\ repo_dir = FALSE
  /\ temp_dir = "none"
  /\ need_download = TRUE /\ need_chunking = TRUE /\ need_embedding = TRUE
  /\ files_to_chunk = {} /\ files_to_delete = {}
  /\ chunks = EmptyMap
  /\ calls = NoCalls
  /\ stage = NoStage
  /\ prev = NoPrev
  /\ repository = "o/a"
  /\ \E r \in Repositories :
       /\ suspended = IdleRun(r)
       /\ others \in IF r = repository THEN {NewWorld} ELSE StartWorlds

NextConc ==
  \/ Switch
  \/ BeginOnce
  \/ DownloadSkip
  \/ DownloadOk
  \/ DownloadFails
  \/ ChunkSkip
  \/ ChunkScoped
  \/ ChunkFull
  \/ EmbedSkip
  \/ EmbedOk
  \/ EmbedFails
  \/ Cleanup

SpecConc == InitConc /\ [][NextConc]_vars

\* --------------------------------------------- one call, any prior record
\* The records a database can hold for a repository at its first commit: any
\* three flags, any file hashes.
PriorRecords ==
  { [ RepositoryInfo(1) EXCEPT
        !.download_successful = d,
        !.chunking_successful = c,
        !.embedding_successful = e,
        !.file_hashes = h,
        !.num_files = Cardinality(Keys(h)),
        !.num_chunks = IF e THEN LenChunks(h) ELSE 0,
        !.last_indexed = IF e THEN 1 ELSE 0 ] :
      d \in BOOLEAN, c \in BOOLEAN, e \in BOOLEAN, h \in FileMap }

\* A call is about to be made for a repository with no record or any prior
\* record, whose upstream is at the commit of the record or at a later one,
\* with any file set.
InitAnyPrior ==
  /\ head \in 1..MaxCommits
  /\ tree \in FileMap
  /\ db_repo \in PriorRecords \cup {NoRepo}
  /\ db_chunks = IF db_repo # NoRepo /\ db_repo.embedding_successful
                 THEN StoreChunks(EmptyStore, db_repo.file_hashes)
                 ELSE EmptyStore
  /\ chunks_before = db_chunks
  /\ pc = "idle"
  /\ outcome = "none"
  /\ ret = NoRepo
  /\ force_refresh = FALSE /\ force_redownload = FALSE
  /\ force_rechunk = FALSE /\ force_reembed = FALSE
  /\ existing_repo = NoRepo
  /\ repo_info = NoRepo
  /\ repo_dir = FALSE
  /\ temp_dir = "none"
  /\ need_download = TRUE /\ need_chunking = TRUE /\ need_embedding = TRUE
  /\ files_to_chunk = {} /\ files_to_delete = {}
  /\ chunks = EmptyMap
  /\ calls = NoCalls
  /\ stage = NoStage
  /\ prev = NoPrev
  /\ repository = "o/a"
  /\ suspended = IdleRun("o/a")
  /\ others = NewWorld

\* The call plans and, when the plan says so, downloads and diffs.
NextAnyPrior ==
  \/ BeginOnce
  \/ DownloadOk

SpecAnyPrior == InitAnyPrior /\ [][NextAnyPrior]_vars

\* ------------------------------------- one call, any prior record and content
\* The records a database can hold for a repository at its first commit, with
\* files of any content among the file hashes.
PriorRecordsAnyContent ==
  { [ RepositoryInfo(1) EXCEPT
        !.download_successful = d,
        !.chunking_successful = c,
        !.embedding_successful = e,
        !.file_hashes = h,
        !.num_files = Cardinality(Keys(h)),
        !.num_chunks = IF e THEN LenChunks(h) ELSE 0,
        !.last_indexed = IF e THEN 1 ELSE 0 ] :
      d \in BOOLEAN, c \in BOOLEAN, e \in BOOLEAN, h \in AnyFileMap }

\* A call is about to be made for a repository with no record or any prior
\* record; upstream is at the commit of the record or at a later one and
\* each of its files is absent, text or binary.
InitContent ==
  /\ head \in 1..MaxCommits
  /\ tree \in AnyFileMap
  /\ db_repo \in PriorRecordsAnyContent \cup {NoRepo}
  /\ db_chunks = IF db_repo # NoRepo /\ db_repo.embedding_successful
                 THEN StoreChunks(EmptyStore, db_repo.file_hashes)
                 ELSE EmptyStore
  /\ chunks_before = db_chunks
  /\ pc = "idle"
  /\ outcome = "none"
  /\ ret = NoRepo
  /\ force_refresh = FALSE /\ force_redownload = FALSE
  /\ force_rechunk = FALSE /\ force_reembed = FALSE
  /\ existing_repo = NoRepo
  /\ repo_info = NoRepo
  /\ repo_dir = FALSE
  /\ temp_dir = "none"
  /\ need_download = TRUE /\ need_chunking = TRUE /\ need_embedding = TRUE
  /\ files_to_chunk = {} /\ files_to_delete = {}
  /\ chunks = EmptyMap
  /\ calls = NoCalls
  /\ stage = NoStage
  /\ prev = NoPrev
  /\ repository = "o/a"
  /\ suspended = IdleRun("o/a")
  /\ others = NewWorld

\* The steps of a call that has begun, lines 151-292.
RunStep ==
  \/ DownloadSkip
  \/ DownloadOk
  \/ DownloadFails
  \/ ChunkSkip
  \/ ChunkScoped
  \/ ChunkFull
  \/ EmbedSkip
  \/ EmbedOk
  \/ EmbedFails
  \/ Cleanup

NextContent ==
  \/ BeginOnce
  \/ RunStep

SpecContent == InitContent /\ [][NextContent]_vars

\* index_repository is straight-line code around collaborator calls: while
\* every call it makes returns or raises, the interpreter takes the call's
\* next step.
SpecContentFair == SpecContent /\ WF_vars(RunStep)

\* ================================================================ properties
\* A run has ended and nothing has happened since.
RunDone  == pc = "idle" /\ outcome # "none"
Returned == pc = "idle" /\ outcome = "returned"
Raised   == pc = "idle" /\ outcome = "raised"

\* The run resolved the repository identity (get_repository_info returned).
Resolved == repo_info # NoRepo

NoForce ==
  ~force_refresh /\ ~force_redownload /\ ~force_rechunk /\ ~force_reembed

AllOk(r) ==
  r.download_successful /\ r.chunking_successful /\ r.embedding_successful

\* No collaborator failed in the run (a failing rmtree aside).
NoFailure ==
  /\ Resolved
  /\ stage.download \in {"skipped", "ok"}
  /\ stage.chunk \in {"skipped", "ok"}
  /\ stage.embed \in {"skipped", "ok"}

\* The store holds exactly one batch of chunks for every file of fh that has
\* chunks, at the version fh names, and nothing else.
StoreMatches(s, fh) ==
  s = StoreChunks(EmptyStore, fh)

\* ----------------------------------------------------------------------- C1
\* C1: when a run returned without error, the run right after it that
\* observes the same commit hash and passes no force flag makes no fetch, no
\* chunker call, no chunk-store write and no state write, and returns the
\* state the first run returned.
C1_SecondRunIsNoop ==
  (RunDone /\ Resolved /\ NoForce /\ prev.outcome = "returned")
    => /\ outcome = "returned"
       /\ calls.fetch = 0 /\ calls.chunker = 0 /\ calls.delete = 0
       /\ calls.store_chunks = 0 /\ calls.add_repository = 0
       /\ ret = prev.ret

\* ----------------------------------------------------------------------- C2
\* C2: in every persisted record chunking_successful is true only if
\* download_successful is true.
C2_ChunkOkImpliesDownloadOk ==
  db_repo # NoRepo => (db_repo.chunking_successful => db_repo.download_successful)

\* A record with chunking_successful was written by a run that followed a
\* failed run.
C2_Witness ==
  /\ db_repo # NoRepo /\ db_repo.chunking_successful
  /\ stage.chunk = "ok" /\ prev.outcome = "raised"

\* ----------------------------------------------------------------------- C3
\* C3: in every persisted record embedding_successful is true only if
\* chunking_successful is true.
C3_EmbedOkImpliesChunkOk ==
  db_repo # NoRepo => (db_repo.embedding_successful => db_repo.chunking_successful)

\* ----------------------------------------------------------------------- C4
\* C4: after any sequence of runs, when the persisted record has
\* chunking_successful, every chunk in the store belongs to a file that is a
\* key of the persisted file_hashes.
C4_NoOrphanChunks ==
  (pc = "idle" /\ db_repo # NoRepo /\ db_repo.chunking_successful)
    => StoredFiles(db_chunks) \subseteq Keys(db_repo.file_hashes)

\* ----------------------------------------------------------------------- C5
\* C5: after a run whose download succeeded and whose chunk stage failed, the
\* persisted record has download_successful and not chunking_successful, and
\* the next run with the same commit hash and no force flag does not call the
\* fetcher and does call the chunker.
C5_ResumeAtChunk ==
  /\ (RunDone /\ stage.download = "ok" /\ stage.chunk = "failed")
       => (db_repo.download_successful /\ ~db_repo.chunking_successful)
  /\ (RunDone /\ Resolved /\ NoForce
        /\ prev.stage.download = "ok" /\ prev.stage.chunk = "failed")
       => (calls.fetch = 0 /\ calls.chunker > 0)

\* ----------------------------------------------------------------------- C6
\* C6: after a run that deleted old chunks, chunked its files and failed in
\* the embed stage, a following run with the same commit hash and no force
\* flag that returns leaves the chunks of those files in the store.
C6_ChunksStoredAfterEmbedRetry ==
  (Returned /\ Resolved /\ NoForce
     /\ prev.deleted /\ prev.stage.chunk = "ok" /\ prev.stage.embed = "failed")
    => \A f \in Keys(prev.chunks) : db_chunks[f][prev.chunks[f]] > 0

\* ----------------------------------------------------------------------- C7
\* C7: with the commit hash unchanged and every collaborator succeeding,
\* repeated runs without force flags reach a persisted record with all three
\* flags true.  A run is a function of the persisted record, the chunk store,
\* the commit and the flags, so a run without failure that leaves record and
\* store as it found them is repeated forever: such a run may only happen
\* when the record already has all three flags true.
C7_NoStuckRecord ==
  (Returned /\ NoForce /\ NoFailure /\ existing_repo # NoRepo
     /\ db_repo = existing_repo /\ db_chunks = chunks_before)
    => AllOk(db_repo)

\* ----------------------------------------------------------------------- C8
\* C8: on a fully indexed repository with unchanged commit hash, a run with
\* only force_rechunk returns a state with the chunk count the record had
\* before, and no file has two batches of chunks afterwards.
C8_ForceRechunkKeepsCount ==
  (Returned /\ existing_repo # NoRepo /\ AllOk(existing_repo)
     /\ existing_repo.commit_hash = repo_info.commit_hash
     /\ ~force_refresh /\ ~force_redownload /\ force_rechunk /\ ~force_reembed)
    => /\ ret.num_chunks = existing_repo.num_chunks
       /\ \A f \in Files : Batches(db_chunks, f) <= 1

\* ----------------------------------------------------------------------- C9
\* C9: from a fully indexed record whose file_hashes match the stored chunks,
\* a run without failure on a changed commit in which files were deleted ends
\* with all three flags true, file_hashes equal to the new file set and no
\* chunk of a deleted file in the store.
C9_DeletedFilesLeaveNoChunks ==
  (Returned /\ NoFailure /\ existing_repo # NoRepo /\ AllOk(existing_repo)
     /\ StoreMatches(chunks_before, existing_repo.file_hashes)
     /\ existing_repo.commit_hash # repo_info.commit_hash
     /\ DeletedFiles(existing_repo.file_hashes, tree) # {})
    => /\ AllOk(ret)
       /\ ret.file_hashes = tree
       /\ StoredFiles(db_chunks) \cap DeletedFiles(existing_repo.file_hashes, tree) = {}

\* ---------------------------------------------------------------------- C10
\* C10 as stated: with no prior record, a run (no collaborator failing) has
\* called the fetcher, chunked the repository, called store_chunks exactly
\* once with all chunks produced, persisted the record, called rmtree on the
\* temporary directory and returns the newly observed commit hash.
C10_FirstIndexStoresOnce ==
  (Returned /\ NoFailure /\ existing_repo = NoRepo)
    => /\ calls.fetch = 1
       /\ calls.chunker >= 1
       /\ calls.store_chunks = 1
       /\ db_chunks = StoreChunks(EmptyStore, chunks)
       /\ calls.add_repository >= 1 /\ db_repo = ret
       /\ calls.rmtree = 1
       /\ ret.commit_hash = head

\* C10 amended: with no prior record, every run that returns has called the
\* fetcher, chunked the repository, persisted the record, called rmtree and
\* returns the newly observed commit hash; it has called store_chunks exactly
\* once, with all chunks produced, when it produced at least one chunk, and
\* not at all when it produced none.
C10_FirstIndexStoresIfAny ==
  (Returned /\ existing_repo = NoRepo)
    => /\ calls.fetch = 1
       /\ calls.chunker >= 1
       /\ calls.store_chunks = (IF LenChunks(chunks) > 0 THEN 1 ELSE 0)
       /\ db_chunks = StoreChunks(EmptyStore, chunks)
       /\ calls.add_repository >= 1 /\ db_repo = ret
       /\ calls.rmtree = 1
       /\ ret.commit_hash = head

\* A first run with force_redownload and force_reembed stored its chunks.
C10_Witness ==
  /\ Returned /\ existing_repo = NoRepo
  /\ force_redownload /\ force_reembed /\ ~force_rechunk
  /\ calls.store_chunks = 1 /\ LenChunks(chunks) > 0

\* ---------------------------------------------------------------------- C11
\* C11: when the fetch fails, the run ends by raising with a record persisted
\* for the repository whose download_successful is false, the chunker, the
\* chunk deletes and store_chunks were not called, and the chunk store is as
\* the run found it.
C11_DownloadFailureIsRecorded ==
  (Raised /\ stage.download = "failed")
    => /\ db_repo # NoRepo /\ ~db_repo.download_successful
       /\ calls.chunker = 0 /\ calls.delete = 0 /\ calls.store_chunks = 0
       /\ db_chunks = chunks_before

\* The fetch failed in a run that found no record.
C11_Witness ==
  /\ Raised /\ stage.download = "failed" /\ existing_repo = NoRepo
  /\ db_repo # NoRepo /\ calls.add_repository = 1

\* ---------------------------------------------------------------------- C12
\* The text files the chunk stage of this run has to chunk.
InScopeFiles ==
  IF ScopedChunking
  THEN {f \in files_to_chunk : Exists(f) /\ IsTextFile(f)}
  ELSE TextFiles(tree)

\* C12: when the chunker raised a decode failure for a file, the chunk stage
\* has ended without raising, chunking_successful=true is persisted, and
\* exactly one file in scope is missing from the chunks of the run.
C12_DecodeFailureSkipsOneFile ==
  (pc = "embed" /\ stage.chunk = "decode")
    => /\ db_repo.chunking_successful
       /\ Cardinality(InScopeFiles \ Keys(chunks)) = 1

\* ---------------------------------------------------------------------- C13
\* C13: when the chunk stage failed with an error that is not a decode
\* failure, the run ends by raising, the persisted record has
\* download_successful true and chunking_successful false, and the embed
\* stage did not run: store_chunks was not called, the chunk store has only
\* lost what the chunk stage deleted, and embedding_successful is not true.
C13_ChunkFailureStopsTheRun ==
  (RunDone /\ stage.chunk = "failed")
    => /\ outcome = "raised"
       /\ db_repo.download_successful /\ ~db_repo.chunking_successful
       /\ ~db_repo.embedding_successful
       /\ stage.embed = "skipped" /\ calls.store_chunks = 0
       /\ \A f \in Files : \A v \in 1..MaxHash :
            db_chunks[f][v] <= chunks_before[f][v]

\* A chunk stage that had already produced chunks failed on a repository that
\* was indexed before.
C13_Witness ==
  /\ Raised /\ stage.chunk = "failed" /\ LenChunks(chunks) > 0
  /\ existing_repo # NoRepo /\ existing_repo.embedding_successful

\* ---------------------------------------------------------------------- C14
\* C14: when store_chunks failed, the run ends by raising, the persisted
\* record has embedding_successful false, its download_successful and
\* chunking_successful are what the download and chunk stages of the run
\* set, its last_indexed is not set, and the chunk store did not gain a
\* chunk.
C14_EmbedFailureIsRecorded ==
  (RunDone /\ stage.embed = "failed")
    => /\ outcome = "raised"
       /\ ~db_repo.embedding_successful
       /\ db_repo.download_successful = (stage.download = "ok")
       /\ db_repo.chunking_successful = (stage.chunk = "ok")
       /\ db_repo.last_indexed = 0
       /\ \A f \in Files : \A v \in 1..MaxHash :
            db_chunks[f][v] <= chunks_before[f][v]

\* store_chunks failed in a run on a repository that had been fully indexed
\* (its record had a last_indexed time).
C14_Witness ==
  /\ Raised /\ stage.embed = "failed" /\ stage.chunk = "ok"
  /\ existing_repo # NoRepo /\ existing_repo.last_indexed = 1

\* ---------------------------------------------------------------------- C15
\* C15: a step in which get_repository_info fails ends the run by raising
\* and changes neither the persisted record nor the chunk store, and makes
\* no collaborator call that writes.
C15_ResolveFailureWritesNothing ==
  [][ (pc = "idle" /\ outcome' = "raised")
        => /\ pc' = "idle"
           /\ db_repo' = db_repo /\ db_chunks' = db_chunks
           /\ calls' = NoCalls ]_vars

\* get_repository_info failed for a repository that has a record and chunks.
C15_Witness ==
  /\ Raised /\ ~Resolved
  /\ db_repo # NoRepo /\ StoredFiles(db_chunks) # {}

\* ---------------------------------------------------------------------- C16
\* C16: when a run that created a temporary directory has ended, by return
\* or by raising, rmtree has been called on the directory.
C16_TempDirRemovedOnEveryExit ==
  (RunDone /\ temp_dir # "none")
    => (calls.rmtree = 1 /\ temp_dir \in {"removed", "leftover"})

\* ---------------------------------------------------------------------- C17
\* The flag a stage leaves in the record: true exactly when it ended without
\* an exception.
StageFlag(s) == s = "ok"

\* C17: at every point of a run after a stage has executed (between two
\* stages, and when the run has ended) the persisted record is the in-memory
\* record, the flag of every stage that executed in the run tells whether it
\* succeeded, and the flags of the later stages are false; before the first
\* stage that executes the persisted record is the one the run found.
C17_StateWrittenAfterEachStage ==
  /\ (Resolved /\ stage # NoStage) =>
       /\ db_repo = repo_info
       /\ stage.download # "skipped"
            => db_repo.download_successful = StageFlag(stage.download)
       /\ stage.chunk # "skipped"
            => db_repo.chunking_successful = StageFlag(stage.chunk)
       /\ stage.embed # "skipped"
            => db_repo.embedding_successful = StageFlag(stage.embed)
       /\ (pc = "chunk") => ~db_repo.chunking_successful
       /\ (pc \in {"chunk", "embed"}) => ~db_repo.embedding_successful
  /\ (pc \in {"download", "chunk", "embed", "cleanup"} /\ stage = NoStage)
       => db_repo = existing_repo

\* Between the chunk stage and the embed stage the record has the download
\* and chunk flags and not yet the embed flag, on a repository whose previous
\* record had all three.
C17_Witness ==
  /\ pc = "embed" /\ stage.download = "ok" /\ stage.chunk = "ok"
  /\ db_repo.download_successful /\ db_repo.chunking_successful
  /\ ~db_repo.embedding_successful
  /\ existing_repo # NoRepo /\ AllOk(existing_repo)

\* ---------------------------------------------------------------------- C20
\* C20: a run that starts with force_redownload, force_rechunk and
\* force_reembed in effect starts with the in-memory record and the plan that
\* the run with the other spelling of the same request starts with
\* (force_refresh instead of the three flags, or the three flags instead of
\* force_refresh); the stages that follow depend on nothing else.
C20_ForceRefreshIsSugar ==
  (pc = "download" /\ force_redownload /\ force_rechunk /\ force_reembed)
    => LET current == RepositoryInfo(repo_info.commit_hash)
           other   == ~force_refresh
       IN /\ repo_info = StartRepoInfo(existing_repo, current, other)
          /\ need_download = NeedDownload(existing_repo, current, other, TRUE)
          /\ need_chunking = NeedChunking(existing_repo, current, other, TRUE, TRUE)
          /\ need_embedding =
               NeedEmbedding(existing_repo, current, other, TRUE, TRUE, TRUE)

\* ---------------------------------------------------------------------- C18
\* C18: while two calls for the same repository are in progress, they are
\* never both between their start and their end; every persisted record
\* with chunking_successful has download_successful; and no file has two
\* batches of chunks in the store.
C18_ConcurrentRunsAreSerialized ==
  (suspended.repository = repository)
    => /\ ~(pc # "idle" /\ suspended.pc # "idle")
       /\ db_repo # NoRepo
            => (db_repo.chunking_successful => db_repo.download_successful)
       /\ \A f \in Files : Batches(db_chunks, f) <= 1

\* ---------------------------------------------------------------------- C19
\* The persisted record and the chunks of repository r.
StateOf(r) ==
  IF r = repository
  THEN << db_repo, db_chunks >>
  ELSE << others.db_repo, others.db_chunks >>

\* C19: every step of a call for one repository, and every hand-over between
\* two calls, leaves the persisted record and the chunks of every other
\* repository as they were.
C19_OtherRepositoryUntouched ==
  [][ \A r \in Repositories :
        (r # repository \/ repository' # repository)
          => StateOf(r)' = StateOf(r) ]_vars

\* A run has deleted chunks of its repository while a call for the other
\* repository, which has a record and chunks, is in progress.
C19_Witness ==
  /\ suspended.repository # repository
  /\ pc = "embed" /\ calls.delete > 0 /\ existing_repo # NoRepo
  /\ suspended.pc \in {"chunk", "embed"}
  /\ others.db_repo # NoRepo /\ StoredFiles(others.db_chunks) # {}

\* ---------------------------------------------------------------------- C21
\* The run observed the commit of the record it found.
UnchangedCommit ==
  /\ existing_repo # NoRepo /\ Resolved
  /\ existing_repo.commit_hash # 0
  /\ existing_repo.commit_hash = repo_info.commit_hash

\* C21: after a download that was diffed against non-empty old file hashes,
\* the files to chunk are the keys of the new hashes that are absent from the
\* old ones or have another hash, the files to delete are the keys of the old
\* hashes absent from the new ones, and these two sets and the set of the
\* keys with equal hash in both are pairwise disjoint and cover the keys of
\* both mappings.
C21_ChangeSetPartitions ==
  (pc = "chunk" /\ stage.download = "ok" /\ HasOldHashes(existing_repo))
    => LET old == existing_repo.file_hashes
           new == repo_info.file_hashes
           changed == files_to_chunk
           deleted == files_to_delete
           unchanged == {f \in Keys(old) \cap Keys(new) : old[f] = new[f]}
       IN /\ changed = {f \in Keys(new) : f \notin Keys(old) \/ old[f] # new[f]}
          /\ deleted = Keys(old) \ Keys(new)
          /\ changed \cap deleted = {}
          /\ changed \cap unchanged = {}
          /\ deleted \cap unchanged = {}
          /\ changed \cup deleted \cup unchanged = Keys(old) \cup Keys(new)

\* A diff with an added and a deleted file: x.py is only in the new hashes,
\* y.md only in the old ones.
C21_Witness ==
  /\ pc = "chunk" /\ stage.download = "ok" /\ HasOldHashes(existing_repo)
  /\ files_to_chunk = {"x.py"} /\ files_to_delete = {"y.md"}
  /\ existing_repo.file_hashes["x.py"] = 0

\* ---------------------------------------------------------------------- C24
\* C24: when the record found has the observed commit hash and force_refresh
\* is unset, the plan the call starts with is: download iff force_redownload
\* or not download_successful; chunk iff download, or force_rechunk, or not
\* chunking_successful; embed iff chunk, or force_reembed, or not
\* embedding_successful.
C24_PlanForUnchangedCommit ==
  (UnchangedCommit /\ ~force_refresh /\ stage = NoStage
     /\ (pc = "download" \/ Returned))
    => /\ need_download
            = (force_redownload \/ ~existing_repo.download_successful)
       /\ need_chunking
            = (need_download \/ force_rechunk
                 \/ ~existing_repo.chunking_successful)
       /\ need_embedding
            = (need_chunking \/ force_reembed
                 \/ ~existing_repo.embedding_successful)

\* The plan is embed only: a record with the download and chunk flags and
\* without the embed flag, no force flag.
C24_Witness ==
  /\ UnchangedCommit /\ NoForce /\ pc = "download"
  /\ ~need_download /\ ~need_chunking /\ need_embedding
  /\ existing_repo.download_successful /\ existing_repo.chunking_successful

\* ---------------------------------------------------------------------- C22
\* C22: after a successful download in a run that found no record, or a
\* record with empty file hashes, the files scheduled for chunking are
\* exactly the keys of the downloaded file hashes and no file is scheduled
\* for chunk deletion.
C22_FirstScopeIsEveryFile ==
  (pc = "chunk" /\ stage.download = "ok" /\ ~HasOldHashes(existing_repo))
    => /\ files_to_chunk = Keys(tree)
       /\ files_to_chunk = Keys(db_repo.file_hashes)
       /\ files_to_delete = {}

\* The record found had lost its file hashes (it has the embed flag only)
\* and the download brought two files.
C22_Witness ==
  /\ pc = "chunk" /\ stage.download = "ok"
  /\ existing_repo # NoRepo /\ Keys(existing_repo.file_hashes) = {}
  /\ existing_repo.embedding_successful
  /\ files_to_chunk = Files

\* ---------------------------------------------------------------------- C30
\* C30: once the download of a run has succeeded, the persisted record has
\* exactly the file hashes the fetch returned (no key of the old record that
\* the download lacks) and has download_successful.
C30_FileHashesAreTheDownloaded ==
  (stage.download = "ok")
    => (db_repo.file_hashes = tree /\ db_repo.download_successful)

\* The download no longer has a file that the old record had, and the
\* run had copied the old file hashes into its record.
C30_Witness ==
  /\ pc = "chunk" /\ stage.download = "ok"
  /\ existing_repo # NoRepo /\ ~UnchangedCommit
  /\ existing_repo.file_hashes["y.md"] # 0
  /\ tree["y.md"] = 0 /\ db_repo.file_hashes["y.md"] = 0

\* ---------------------------------------------------------------------- C25
\* C25: a run without force flags that finds a record with the observed
\* commit hash and all three flags true ends at once: it returns that
\* record, has made no collaborator call, and record and chunk store are as
\* it found them.
C25_FullyIndexedIsNoop ==
  (Resolved /\ UnchangedCommit /\ AllOk(existing_repo) /\ NoForce)
    => /\ Returned
       /\ ret = existing_repo
       /\ calls = NoCalls
       /\ db_repo = existing_repo /\ db_chunks = chunks_before

\* Such a run on a repository with chunks in the store, after a run that
\* indexed it.
C25_Witness ==
  /\ Returned /\ UnchangedCommit /\ AllOk(existing_repo) /\ NoForce
  /\ ret = existing_repo /\ StoredFiles(db_chunks) # {}
  /\ prev.stage.embed = "ok"

\* ---------------------------------------------------------------------- C28
\* C28: whenever a step writes new chunks of a file to the store, the store
\* holds no chunk of that file and no chunk of a file of the deleted set
\* before the step; and after a run without failure no file has two batches
\* of chunks and every file the run chunked has only the chunks of the
\* version the run chunked.
C28_OldChunksGoBeforeNewOnes ==
  /\ [][ \A f \in Files :
          Batches(db_chunks', f) > Batches(db_chunks, f)
            => /\ Batches(db_chunks, f) = 0
               /\ \A g \in files_to_delete : Batches(db_chunks, g) = 0 ]_vars
  /\ []( (Returned /\ NoFailure)
          => \A f \in Files :
               /\ Batches(db_chunks, f) <= 1
               /\ f \in Keys(chunks)
                    => \A v \in 1..MaxHash :
                         db_chunks[f][v] > 0 => v = chunks[f] )

\* A run has stored the new chunks of a changed file whose old chunks were in
\* the store when it began, and a file of the deleted set had chunks too.
C28_Witness ==
  /\ Returned /\ NoFailure /\ stage.embed = "ok"
  /\ chunks["x.py"] = 2 /\ chunks_before["x.py"][1] > 0
  /\ db_chunks["x.py"][2] = 1 /\ db_chunks["x.py"][1] = 0
  /\ files_to_delete = {"y.md"} /\ chunks_before["y.md"][1] > 0

\* ---------------------------------------------------------------------- C29
\* C29: in every run the chunker is only called, and the chunk stage only
\* runs, after the fetch of the run has succeeded; store_chunks is only
\* called after the chunk stage of the run has ended without raising; and a
\* run in which the download or the chunk stage raised has ended with that
\* error and no later stage has run.
C29_StagesInOrder ==
  /\ (calls.chunker > 0 \/ stage.chunk # "skipped") => stage.download = "ok"
  /\ calls.store_chunks > 0 => stage.chunk \in {"ok", "decode"}
  /\ stage.embed # "skipped"
       => (stage.download # "failed" /\ stage.chunk # "failed")
  /\ stage.download = "failed"
       => /\ pc = "idle" /\ outcome = "raised"
          /\ stage.chunk = "skipped" /\ stage.embed = "skipped"
          /\ calls.chunker = 0 /\ calls.delete = 0 /\ calls.store_chunks = 0
  /\ stage.chunk = "failed"
       => /\ pc = "idle" /\ outcome = "raised"
          /\ stage.embed = "skipped" /\ calls.store_chunks = 0

\* All three stages have run in a run and the embed stage failed.
C29_Witness ==
  /\ Raised /\ stage.download = "ok" /\ stage.chunk = "ok"
  /\ stage.embed = "failed"
  /\ calls.fetch = 1 /\ calls.chunker = 1 /\ calls.store_chunks = 1

\* ---------------------------------------------------------------------- C23
\* The run found no record, or a record with another commit hash, or was
\* called with force_refresh.
FullIndexCase ==
  Resolved /\ (~UnchangedCommit \/ force_refresh)

C26_ChunkScopeIsTheDiff ==
  (pc = "embed" /\ stage.download = "ok" /\ stage.chunk = "ok"
     /\ UnchangedCommit /\ ~force_refresh /\ HasOldHashes(existing_repo))
    => IF force_rechunk
       THEN Keys(chunks) = TextFiles(tree)
       ELSE /\ Keys(chunks) = files_to_chunk
            /\ db_chunks = DeleteFileChunks(chunks_before,
                                            files_to_chunk \cup files_to_delete)

\* ---------------------------------------------------------------------- C27
\* C27, on the runs that found a fully indexed record: when a download was
\* diffed against the old file hashes, no file is changed and none deleted,
\* no re-chunk is forced and the chunk stage has run without error, then the
\* stage has produced no chunk, has deleted no chunk and is recorded with
\* chunking_successful.
C27_EmptyDiffChunksNothing ==
  (pc = "embed" /\ stage.download = "ok" /\ stage.chunk = "ok"
     /\ HasOldHashes(existing_repo) /\ AllOk(existing_repo) /\ ~force_rechunk
     /\ files_to_chunk = {} /\ files_to_delete = {})
    => /\ LenChunks(chunks) = 0 /\ calls.chunker = 0
       /\ calls.delete = 0 /\ db_chunks = chunks_before
       /\ db_repo.chunking_successful

\* ---------------------------------------------------------------------- C31
\* C31: a run whose download failed leaves the persisted file_hashes as they
\* were before the run (empty when there was no record).
C31_FailedDownloadKeepsFileHashes ==
  (Raised /\ stage.download = "failed")
    => db_repo.file_hashes =
         IF existing_repo # NoRepo THEN existing_repo.file_hashes ELSE EmptyMap

\* ---------------------------------------------------------------------- C32
\* C32: the record written by a first indexing attempt whose download failed
\* has no commit hash.
C32_NoCommitHashBeforeDownload ==
  (Raised /\ stage.download = "failed" /\ existing_repo = NoRepo)
    => db_repo.commit_hash = 0

\* ---------------------------------------------------------------------- C33
\* C33: every persisted record has last_indexed only together with
\* embedding_successful, and the write of every successful embed stage
\* carries both embedding_successful and last_indexed.
C33_LastIndexedOnlyWithEmbedOk ==
  /\ [](db_repo # NoRepo =>
          (db_repo.last_indexed # 0 => db_repo.embedding_successful))
  /\ [][(stage.embed # "ok" /\ stage'.embed = "ok")
          => /\ db_repo'.embedding_successful
             /\ db_repo'.last_indexed # 0
             /\ calls'.add_repository = calls.add_repository + 1]_vars

\* The embed stage of a run on a changed commit has succeeded for a
\* repository whose old record had a time of indexing.
C33_Witness ==
  /\ pc = "cleanup" /\ stage.embed = "ok"
  /\ existing_repo # NoRepo /\ existing_repo.last_indexed # 0
  /\ ~UnchangedCommit
  /\ db_repo.last_indexed # 0

\* ---------------------------------------------------------------------- C36
\* C36: every run that returns returns a record with download_successful,
\* chunking_successful and embedding_successful all true.
C36_ReturnedStateIsAllOk ==
  (Returned /\ Resolved) => AllOk(ret)

\* ---------------------------------------------------------------------- C37
\* C37: the record a run returns is the record the state store holds for the
\* repository when the run returns.
C37_ReturnedStateIsPersisted ==
  (Returned /\ Resolved) => ret = db_repo

\* ---------------------------------------------------------------------- C38
\* C38: when the embed stage of a run has succeeded, the persisted num_chunks
\* is the number of chunks the store holds for the repository.
C38_NumChunksIsTheStoreCount ==
  (pc = "cleanup" /\ stage.embed = "ok")
    => db_repo.num_chunks = CountChunks(db_chunks)

\* ---------------------------------------------------------------------- C34
\* C34: when the chunk stage has chunked the changed files without error and
\* a changed file is not a text file, the store holds no chunk of that file,
\* the run has no new chunk for it, and every changed text file has been
\* chunked.
C34_NonTextFileLosesItsChunks ==
  (pc = "embed" /\ stage.chunk = "ok" /\ ScopedChunking)
    => \A f \in files_to_chunk :
         (Exists(f) /\ ~IsText(f, tree[f]))
           => /\ Batches(db_chunks, f) = 0
              /\ chunks[f] = 0
              /\ \A g \in files_to_chunk :
                   (Exists(g) /\ IsText(g, tree[g])) => chunks[g] = tree[g]

\* y.md had chunks in the store and is now binary, x.py changed as well: the
\* chunk stage has gone through both and the run goes on to the embed stage.
C34_Witness ==
  /\ pc = "embed" /\ stage.chunk = "ok" /\ ScopedChunking
  /\ files_to_chunk = {"x.py", "y.md"}
  /\ tree["y.md"] = Binary
  /\ Batches(chunks_before, "y.md") > 0
  /\ Batches(db_chunks, "y.md") = 0
  /\ chunks["x.py"] # 0 /\ chunks["y.md"] = 0

\* ---------------------------------------------------------------------- C35
\* C35: every run that has begun ends: it returns a record or it raises.
C35_EveryRunEnds ==
  (pc # "idle") ~> RunDone

\* A run has gone through all three stages and the cleanup and has returned.
C35_Witness ==
  /\ Returned
  /\ calls.fetch = 1 /\ calls.chunker = 1 /\ calls.store_chunks = 1
  /\ calls.rmtree = 1

====
